---- MODULE Spec2Model ----
(***************************************************************************)
(* Model of rollup.config.ts: the generator of the rollup build matrix.    *)
(*                                                                         *)
(* JavaScript strings are TLA+ strings (Len, \o and SubSeq act on their    *)
(* characters), arrays are sequences, object literals are records, and a   *)
(* plugin call  f({...})  is the record of its arguments tagged with the   *)
(* plugin's import name.  A key an object literal does not set is absent   *)
(* from the record's DOMAIN.                                               *)
(***************************************************************************)
EXTENDS Integers, Sequences, FiniteSets, TLC

(***************************************************************************)
(* Bounds of the exploration.                                              *)
(***************************************************************************)
MaxPkgs == 2   \* longest list of package declarations spread by rollup
MaxRuns == 2   \* how many times rollup is called

(***************************************************************************)
(* Module-level constants of rollup.config.ts.                             *)
(***************************************************************************)

\* const globals = {...}: an object keeps its keys in insertion order.
globals ==
  << [key |-> "react",                 value |-> "React"],
     [key |-> "solid-js",              value |-> "Solid"],
     [key |-> "solid-js/store",        value |-> "SolidStore"],
     [key |-> "react-dom",             value |-> "ReactDOM"],
     [key |-> "@tanstack/ranger-core", value |-> "RangerCore"] >>

\* Object.keys(o)
ObjectKeys(o) == [k \in 1..Len(o) |-> o[k].key]

\* const externals = Object.keys(globals)
externals == ObjectKeys(globals)

\* the extensions handed to babel and to nodeResolve
Extensions == << ".ts", ".tsx", ".jsx" >>

\* const umdDevPlugin = (type) => replace({...})
umdDevPlugin(type) ==
  [ plugin            |-> "replace",
    target            |-> "process.env.NODE_ENV",
    replacement       |-> "\"" \o type \o "\"",
    delimiters        |-> << "", "" >>,
    preventAssignment |-> TRUE ]

\* const babelPlugin = babel({...})
babelPlugin ==
  [ plugin       |-> "babel",
    babelHelpers |-> "bundled",
    exclude      |-> "/node_modules/",
    extensions   |-> Extensions ]

\* nodeResolve({ extensions: [...] })
nodeResolvePlugin == [ plugin |-> "nodeResolve", extensions |-> Extensions ]

(***************************************************************************)
(* path.resolve, as the config calls it: the later argument wins when it   *)
(* is absolute, empty arguments are skipped, the working directory is      *)
(* prepended to a relative result, and the result is normalised.           *)
(***************************************************************************)

\* process.cwd() of the build
Cwd == "/repo"

IsAbsolute(p) == Len(p) > 0 /\ SubSeq(p, 1, 1) = "/"

\* the characters of p from position i up to (not including) the next "/"
RECURSIVE SegmentEnd(_, _)
SegmentEnd(p, i) ==
  IF i > Len(p) \/ SubSeq(p, i, i) = "/" THEN i ELSE SegmentEnd(p, i + 1)

\* p split at every "/"
RECURSIVE SplitFrom(_, _)
SplitFrom(p, i) ==
  IF i > Len(p) + 1 THEN << >>
  ELSE LET e == SegmentEnd(p, i)
       IN  << SubSeq(p, i, e - 1) >> \o SplitFrom(p, e + 1)

\* normalizeString: "" and "." segments vanish, ".." removes the segment
\* before it (above the root of an absolute path it is dropped)
RECURSIVE NormalizeSegments(_, _, _)
NormalizeSegments(segs, acc, allowAboveRoot) ==
  IF segs = << >> THEN acc
  ELSE LET s == Head(segs)
           next == IF s = "" \/ s = "." THEN acc
                   ELSE IF s = ".."
                        THEN IF Len(acc) > 0 /\ acc[Len(acc)] # ".."
                             THEN SubSeq(acc, 1, Len(acc) - 1)
                             ELSE IF allowAboveRoot THEN Append(acc, "..")
                                  ELSE acc
                        ELSE Append(acc, s)
       IN  NormalizeSegments(Tail(segs), next, allowAboveRoot)

RECURSIVE JoinSegments(_)
JoinSegments(segs) ==
  IF segs = << >> THEN ""
  ELSE IF Len(segs) = 1 THEN segs[1]
       ELSE segs[1] \o "/" \o JoinSegments(Tail(segs))

\* the loop of path.resolve over its arguments, last to first, then the cwd
RECURSIVE ResolveLoop(_, _, _)
ResolveLoop(args, i, resolvedPath) ==
  IF i < 0 THEN resolvedPath
  ELSE LET p == IF i >= 1 THEN args[i] ELSE Cwd
       IN  IF Len(p) = 0 THEN ResolveLoop(args, i - 1, resolvedPath)
           ELSE IF IsAbsolute(p) THEN p \o "/" \o resolvedPath
                ELSE ResolveLoop(args, i - 1, p \o "/" \o resolvedPath)

pathResolve(a, b) ==
  LET joined == ResolveLoop(<< a, b >>, 2, "")
      abs    == IsAbsolute(joined)
      norm   == JoinSegments(NormalizeSegments(SplitFrom(joined, 1), << >>, ~abs))
  IN  IF abs THEN "/" \o norm
      ELSE IF Len(norm) > 0 THEN norm ELSE "."

(***************************************************************************)
(* createBanner: the template literal, with ${libraryName} on its second   *)
(* line.                                                                   *)
(***************************************************************************)
BannerHead == "/**\n * "

BannerTail ==
  "\n *\n * Copyright (c) TanStack\n *\n"
  \o " * This source code is licensed under the MIT license found in the\n"
  \o " * LICENSE.md file in the root directory of this source tree.\n"
  \o " *\n * @license MIT\n */"

createBanner(libraryName) == BannerHead \o libraryName \o BannerTail

(***************************************************************************)
(* The external predicate.  buildConfigs creates the closure               *)
(*   moduleName => externalDeps.includes(moduleName)                       *)
(* once; a descriptor holds the closure, here the array it captured.       *)
(***************************************************************************)

\* Array.prototype.includes on strings: equality with some element
ArrayIncludes(arr, x) == \E k \in 1..Len(arr) : arr[k] = x

\* String.prototype.startsWith
StartsWith(s, prefix) ==
  Len(prefix) <= Len(s) /\ SubSeq(s, 1, Len(prefix)) = prefix

\* a classifier that also accepts the sub-paths of a peer dependency
external_subpath(closure, moduleName) ==
  \E k \in 1..Len(closure.externalDeps) :
    \/ closure.externalDeps[k] = moduleName
    \/ StartsWith(moduleName, closure.externalDeps[k] \o "/")

\* calling the closure  external(moduleName)
external(closure, moduleName) == ArrayIncludes(closure.externalDeps, moduleName)

(***************************************************************************)
(* The four target builders.                                               *)
(***************************************************************************)

\* esm with the output directory misspelt
esm_wrongDir(options) ==
  [ external |-> options.external,
    input    |-> options.input,
    output   |-> [ format    |-> "esm",
                   sourcemap |-> TRUE,
                   dir       |-> options.packageDir \o "/build/es",
                   banner    |-> options.banner ],
    plugins  |-> << babelPlugin, nodeResolvePlugin >> ]

esm(options) ==
  [ external |-> options.external,
    input    |-> options.input,
    output   |-> [ format    |-> "esm",
                   sourcemap |-> TRUE,
                   dir       |-> options.packageDir \o "/build/esm",
                   banner    |-> options.banner ],
    plugins  |-> << babelPlugin, nodeResolvePlugin >> ]

\* cjs that also minifies
cjs_minified(options) ==
  [ external |-> options.external,
    input    |-> options.input,
    output   |-> [ format          |-> "cjs",
                   sourcemap       |-> TRUE,
                   dir             |-> options.packageDir \o "/build/cjs",
                   preserveModules |-> TRUE,
                   exports         |-> "named",
                   banner          |-> options.banner ],
    plugins  |-> << babelPlugin, nodeResolvePlugin,
                    [ plugin |-> "terser", mangle |-> TRUE, compress |-> TRUE ] >> ]

cjs(options) ==
  [ external |-> options.external,
    input    |-> options.input,
    output   |-> [ format          |-> "cjs",
                   sourcemap       |-> TRUE,
                   dir             |-> options.packageDir \o "/build/cjs",
                   preserveModules |-> TRUE,
                   exports         |-> "named",
                   banner          |-> options.banner ],
    plugins  |-> << babelPlugin, nodeResolvePlugin >> ]

\* umdDev naming its global after the output file stem
umdDev_stemName(options) ==
  [ external |-> options.external,
    input    |-> options.input,
    output   |-> [ format    |-> "umd",
                   sourcemap |-> TRUE,
                   file      |-> options.packageDir \o "/build/umd/index.development.js",
                   name      |-> options.outputFile,
                   globals   |-> globals,
                   banner    |-> options.banner ],
    plugins  |-> << babelPlugin, nodeResolvePlugin, umdDevPlugin("development") >> ]

umdDev(options) ==
  [ external |-> options.external,
    input    |-> options.input,
    output   |-> [ format    |-> "umd",
                   sourcemap |-> TRUE,
                   file      |-> options.packageDir \o "/build/umd/index.development.js",
                   name      |-> options.jsName,
                   globals   |-> globals,
                   banner    |-> options.banner ],
    plugins  |-> << babelPlugin, nodeResolvePlugin, umdDevPlugin("development") >> ]

\* the plugins of umdProd, from terser on
terserPlugin == [ plugin |-> "terser", mangle |-> TRUE, compress |-> TRUE ]

sizePlugin == [ plugin |-> "size" ]

visualizerHtml(packageDir) ==
  [ plugin   |-> "visualizer",
    filename |-> packageDir \o "/build/stats-html.html",
    gzipSize |-> TRUE ]

visualizerJson(packageDir) ==
  [ plugin   |-> "visualizer",
    filename |-> packageDir \o "/build/stats-react.json",
    json     |-> TRUE,
    gzipSize |-> TRUE ]

\* umdProd minifying before the environment is replaced
umdProd_minifyFirst(options) ==
  [ external |-> options.external,
    input    |-> options.input,
    output   |-> [ format    |-> "umd",
                   sourcemap |-> TRUE,
                   file      |-> options.packageDir \o "/build/umd/index.production.js",
                   name      |-> options.jsName,
                   globals   |-> globals,
                   banner    |-> options.banner ],
    plugins  |-> << babelPlugin, nodeResolvePlugin,
                    terserPlugin, umdDevPlugin("production"), sizePlugin,
                    visualizerHtml(options.packageDir),
                    visualizerJson(options.packageDir) >> ]

\* umdProd replacing the environment with the development mode
umdProd_devMode(options) ==
  [ external |-> options.external,
    input    |-> options.input,
    output   |-> [ format    |-> "umd",
                   sourcemap |-> TRUE,
                   file      |-> options.packageDir \o "/build/umd/index.production.js",
                   name      |-> options.jsName,
                   globals   |-> globals,
                   banner    |-> options.banner ],
    plugins  |-> << babelPlugin, nodeResolvePlugin,
                    umdDevPlugin("development"), terserPlugin, sizePlugin,
                    visualizerHtml(options.packageDir),
                    visualizerJson(options.packageDir) >> ]

umdProd(options) ==
  [ external |-> options.external,
    input    |-> options.input,
    output   |-> [ format    |-> "umd",
                   sourcemap |-> TRUE,
                   file      |-> options.packageDir \o "/build/umd/index.production.js",
                   name      |-> options.jsName,
                   globals   |-> globals,
                   banner    |-> options.banner ],
    plugins  |-> << babelPlugin, nodeResolvePlugin,
                    umdDevPlugin("production"), terserPlugin, sizePlugin,
                    visualizerHtml(options.packageDir),
                    visualizerJson(options.packageDir) >> ]

(***************************************************************************)
(* buildConfigs: one Options value, handed to the four builders.           *)
(***************************************************************************)
buildOptions(opts) ==
  [ input      |-> pathResolve(opts.packageDir, opts.entryFile),
    jsName     |-> opts.jsName,
    outputFile |-> opts.outputFile,
    packageDir |-> opts.packageDir,
    external   |-> [ externalDeps |-> externals ],
    banner     |-> createBanner(opts.name) ]

\* buildConfigs returning the CommonJS target first
buildConfigs_cjsFirst(opts) ==
  LET options == buildOptions(opts)
  IN  << cjs(options), esm(options), umdDev(options), umdProd(options) >>

\* buildConfigs leaving out a package with an empty entry file, display
\* name or output file stem
buildConfigs_skipEmpty(opts) ==
  LET options == buildOptions(opts)
  IN  IF opts.entryFile = "" \/ opts.jsName = "" \/ opts.outputFile = ""
      THEN << >>
      ELSE << esm(options), cjs(options), umdDev(options), umdProd(options) >>

\* buildConfigs putting the display name into the banner
buildConfigs_jsNameBanner(opts) ==
  LET options == [ buildOptions(opts) EXCEPT !.banner = createBanner(opts.jsName) ]
  IN  << esm(options), cjs(options), umdDev(options), umdProd(options) >>

buildConfigs(opts) ==
  LET options == buildOptions(opts)
  IN  << esm(options), cjs(options), umdDev(options), umdProd(options) >>

(***************************************************************************)
(* The package declarations.  rollup.config.ts declares one package,       *)
(* ranger-core, by spreading one buildConfigs call into the returned       *)
(* array; a release with more packages adds one spread per package.  The   *)
(* other declarations are inputs buildConfigs accepts: a package directory *)
(* with a trailing slash and an entry file that needs normalising, and     *)
(* declarations with an empty entry file, display name or file stem.       *)
(***************************************************************************)
RangerCore ==
  [ name       |-> "ranger-core",
    packageDir |-> "packages/ranger-core",
    jsName     |-> "RangerCore",
    outputFile |-> "ranger-core",
    entryFile  |-> "src/index.jsx" ]

Declarations ==
  { RangerCore,
    [ name |-> "ranger-react", packageDir |-> "packages/ranger-react/",
      jsName |-> "RangerReact", outputFile |-> "ranger-react",
      entryFile |-> "./src/index.tsx" ],
    [ name |-> "MIT", packageDir |-> "packages/mit",
      jsName |-> "MIT", outputFile |-> "mit", entryFile |-> "" ],
    [ name |-> "no-global", packageDir |-> "packages/no-global",
      jsName |-> "", outputFile |-> "no-global", entryFile |-> "src/index.ts" ],
    [ name |-> "no-stem", packageDir |-> "packages/no-stem",
      jsName |-> "NoStem", outputFile |-> "", entryFile |-> "src/index.ts" ] }

\* the module names the bundler asks the external predicate about
ModuleNames ==
  { "react", "solid-js", "solid-js/store", "react-dom", "@tanstack/ranger-core",
    "solid-js/web", "solid", "preact", "left-pad", "" }

SeqsUpTo(S, n) == UNION { [1..m -> S] : m \in 0..n }

(***************************************************************************)
(* State.                                                                  *)
(***************************************************************************)
VARIABLES
  packages,   \* the declared packages, in declaration order
  pc,         \* "idle", "building" (inside rollup) or "done" (rollup returned)
  i,          \* the next spread element of the array literal to evaluate
  configs,    \* the array rollup is building
  returned,   \* the arrays rollup has returned, one per call
  probe       \* the bundler's last call of a descriptor's external predicate

vars == << packages, pc, i, configs, returned, probe >>

NoProbe == [ descriptor |-> 0, moduleName |-> "", result |-> FALSE ]

Init ==
  /\ packages \in SeqsUpTo(Declarations, MaxPkgs)
  /\ pc = "idle"
  /\ i = 1
  /\ configs = << >>
  /\ returned = << >>
  /\ probe = NoProbe

\* the bundler calls the default export
Call ==
  /\ pc \in { "idle", "done" }
  /\ Len(returned) < MaxRuns
  /\ pc' = "building"
  /\ i' = 1
  /\ configs' = << >>
  /\ probe' = NoProbe
  /\ UNCHANGED << packages, returned >>

\* one element  ...buildConfigs({...})  of the array literal
Spread ==
  /\ pc = "building"
  /\ i <= Len(packages)
  /\ configs' = configs \o buildConfigs(packages[i])
  /\ i' = i + 1
  /\ UNCHANGED << packages, pc, returned, probe >>

\* rollup returns the array
Return ==
  /\ pc = "building"
  /\ i > Len(packages)
  /\ pc' = "done"
  /\ returned' = Append(returned, configs)
  /\ UNCHANGED << packages, i, configs, probe >>

\* the bundler asks a returned descriptor whether a module is external; the
\* predicate reads nothing but the array it captured, so its calls do not
\* affect one another and one call per returned array is followed
Classify ==
  /\ pc = "done"
  /\ probe = NoProbe
  /\ \E k \in 1..Len(configs), m \in ModuleNames :
       probe' = [ descriptor |-> k, moduleName |-> m,
                  result |-> external(configs[k].external, m) ]
  /\ UNCHANGED << packages, pc, i, configs, returned >>

Next == Call \/ Spread \/ Return \/ Classify

Spec == Init /\ [][Next]_vars

(***************************************************************************)
(* Vocabulary of the properties.                                           *)
(***************************************************************************)

\* the transform stage a plugin of the config stands for
StageKind(stage) ==
  CASE stage.plugin = "babel"       -> "Transpile"
    [] stage.plugin = "nodeResolve" -> "ModuleResolve"
    [] stage.plugin = "replace"     -> "EnvironmentReplace"
    [] stage.plugin = "terser"      -> "Minify"
    [] stage.plugin = "size"        -> "Size"
    [] stage.plugin = "visualizer"  -> "Analyze"

Kinds(plugins) == [ n \in 1..Len(plugins) |-> StageKind(plugins[n]) ]

\* the mode an EnvironmentReplace stage substitutes: the replacement text
\* without its quotes
Mode(stage) == SubSeq(stage.replacement, 2, Len(stage.replacement) - 1)

\* the report a visualizer stage writes: JSON with json: true, HTML otherwise
ReportKind(stage) ==
  IF "json" \in DOMAIN stage /\ stage.json THEN "json" ELSE "html"

\* how many times needle occurs in hay
Occurrences(needle, hay) ==
  Cardinality({ q \in 1..(Len(hay) - Len(needle) + 1) :
                  SubSeq(hay, q, q + Len(needle) - 1) = needle })

\* the packages whose spread element has been evaluated in the current call
Processed == 1..(i - 1)

\* the descriptors of the k-th package
Group(k) == SubSeq(configs, 4 * (k - 1) + 1, 4 * k)

\* the keys of the peer-dependency mapping, written out
PeerKeys ==
  { "react", "solid-js", "solid-js/store", "react-dom", "@tanstack/ranger-core" }

\* a declaration with an empty entry file, display name or output base name
Misconfigured(decl) ==
  decl.entryFile = "" \/ decl.jsName = "" \/ decl.outputFile = ""

(***************************************************************************)
(* C1: the matrix holds four descriptors per package, the packages in      *)
(* declaration order and each group in the order ESM, CJS, UMD-DEV,        *)
(* UMD-PROD; every call of rollup on the same declarations returns the     *)
(* same list of 4 * n descriptors.                                         *)
(***************************************************************************)
C1_MatrixOrder ==
  /\ Len(configs) = 4 * (i - 1)
  /\ \A k \in Processed :
       LET g == Group(k)
           dir == packages[k].packageDir
       IN  /\ g[1].output.format = "esm"
           /\ g[1].output.dir = dir \o "/build/esm"
           /\ g[2].output.format = "cjs"
           /\ g[2].output.dir = dir \o "/build/cjs"
           /\ g[3].output.format = "umd"
           /\ g[3].output.file = dir \o "/build/umd/index.development.js"
           /\ g[4].output.format = "umd"
           /\ g[4].output.file = dir \o "/build/umd/index.production.js"
  /\ \A r \in 1..Len(returned) :
       /\ Len(returned[r]) = 4 * Len(packages)
       /\ returned[r] = returned[1]

C1_Witness ==
  /\ Len(returned) = 2
  /\ Len(packages) = 2
  /\ packages[1] # packages[2]
  /\ packages[2] = RangerCore

(***************************************************************************)
(* C2: on every descriptor the external predicate is true of a module name *)
(* exactly when the name is one of the five keys of globals; a sub-path, a *)
(* prefix or a superstring of a key that is not itself a key is not        *)
(* external; the four descriptors of a package answer alike.               *)
(***************************************************************************)
C2_ExternalExact ==
  /\ \A k \in 1..Len(configs) : \A m \in ModuleNames :
       external(configs[k].external, m) <=> m \in PeerKeys
  /\ \A k \in Processed : \A a \in 2..4 :
       Group(k)[a].external = Group(k)[1].external
  /\ probe.descriptor > 0 => probe.result = (probe.moduleName \in PeerKeys)

C2_Witness ==
  /\ probe.descriptor = 4
  /\ probe.moduleName = "solid-js/web"
  /\ probe.result = FALSE

(***************************************************************************)
(* C3 as stated: a declaration with an empty entry file, display name or   *)
(* output base name makes the build fail before any descriptor of that     *)
(* package is produced, so rollup never returns a matrix for it.           *)
(***************************************************************************)
C3_Original ==
  \A k \in 1..Len(packages) :
    Misconfigured(packages[k]) =>
      /\ Len(configs) <= 4 * (k - 1)
      /\ pc # "done"

\* the state part of C3 as amended: what the matrix holds for a declaration
\* with an empty field
C3_NoValidationInv ==
  /\ Len(configs) = 4 * (i - 1)
  /\ \A k \in Processed :
       Misconfigured(packages[k]) =>
         /\ Len(Group(k)) = 4
         /\ \A a \in 1..4 :
              Group(k)[a].input =
                IF packages[k].entryFile = ""
                THEN pathResolve(packages[k].packageDir, ".")
                ELSE pathResolve(packages[k].packageDir, packages[k].entryFile)
         /\ Group(k)[3].output.name = packages[k].jsName
         /\ Group(k)[4].output.name = packages[k].jsName
  /\ pc = "done" => Len(configs) = 4 * Len(packages)

(***************************************************************************)
(* C3 as amended: nothing is validated.  A declaration with an empty entry *)
(* file, display name or output base name gets its four descriptors like   *)
(* any other: the entry path is path.resolve of the package directory and  *)
(* the (possibly empty) entry file, the UMD global name is the (possibly   *)
(* empty) display name, the call returns 4 * n descriptors, and a spread   *)
(* element leaves the descriptors produced before it unchanged.            *)
(***************************************************************************)
C3_NoValidation ==
  /\ []C3_NoValidationInv
  /\ [][pc = "building" /\ pc' = "building"
          => SubSeq(configs', 1, Len(configs)) = configs]_vars

C3_Witness ==
  /\ pc = "done"
  /\ Len(packages) = 2
  /\ packages[1] = RangerCore
  /\ packages[2].entryFile = ""
  /\ configs[5].input = "/repo/packages/mit"

(***************************************************************************)
(* C4 as stated: the UMD-PROD pipeline is exactly the six stages           *)
(* Transpile, ModuleResolve, EnvironmentReplace("production"),             *)
(* Minify(mangle, compress), Analyze(html), Analyze(json, gzip size).      *)
(***************************************************************************)
C4_Original ==
  \A k \in Processed :
    LET pl == Group(k)[4].plugins
    IN  /\ Kinds(pl) = << "Transpile", "ModuleResolve", "EnvironmentReplace",
                          "Minify", "Analyze", "Analyze" >>
        /\ Mode(pl[3]) = "production"
        /\ pl[4].mangle /\ pl[4].compress
        /\ ReportKind(pl[5]) = "html"
        /\ ReportKind(pl[6]) = "json" /\ pl[6].gzipSize

(***************************************************************************)
(* C4 as amended: the UMD-PROD pipeline is exactly seven stages, the six   *)
(* of the claim with the size plugin (rollup-plugin-size, called with no   *)
(* options) between Minify and the first Analyze; both Analyze stages      *)
(* measure the gzip size.                                                  *)
(***************************************************************************)
C4_UmdProdPipeline ==
  \A k \in Processed :
    LET pl == Group(k)[4].plugins
    IN  /\ Kinds(pl) = << "Transpile", "ModuleResolve", "EnvironmentReplace",
                          "Minify", "Size", "Analyze", "Analyze" >>
        /\ Mode(pl[3]) = "production"
        /\ pl[4].mangle /\ pl[4].compress
        /\ DOMAIN pl[5] = { "plugin" }
        /\ ReportKind(pl[6]) = "html" /\ pl[6].gzipSize
        /\ ReportKind(pl[7]) = "json" /\ pl[7].gzipSize

C4_Witness ==
  /\ pc = "done"
  /\ packages = << RangerCore >>
  /\ Len(configs[4].plugins) = 7
  /\ configs[4].plugins[5].plugin = "size"

(***************************************************************************)
(* C5 as stated: the four descriptors of a package carry the same banner,  *)
(* and the banner contains the package's display name (jsName) exactly     *)
(* once.                                                                   *)
(***************************************************************************)
C5_Original ==
  \A k \in Processed :
    /\ \A a \in 1..4 : Group(k)[a].output.banner = Group(k)[1].output.banner
    /\ Occurrences(packages[k].jsName, Group(k)[1].output.banner) = 1

(***************************************************************************)
(* C5 as amended: the four descriptors of a package carry the same banner, *)
(* which is the fixed header with the declaration's name field (not its    *)
(* display name) inserted once, right after the opening comment line; for  *)
(* the declared package the name ranger-core occurs in the banner exactly  *)
(* once and the display name RangerCore does not occur in it.              *)
(***************************************************************************)
C5_BannerName ==
  \A k \in Processed :
    LET b == Group(k)[1].output.banner
        n == packages[k].name
    IN  /\ \A a \in 1..4 : Group(k)[a].output.banner = b
        /\ Len(b) = Len(BannerHead) + Len(n) + Len(BannerTail)
        /\ SubSeq(b, 1, Len(BannerHead)) = "/**\n * "
        /\ SubSeq(b, Len(BannerHead) + 1, Len(BannerHead) + Len(n)) = n
        /\ SubSeq(b, Len(BannerHead) + Len(n) + 1, Len(b)) = BannerTail
        /\ packages[k] = RangerCore =>
             /\ Occurrences("ranger-core", b) = 1
             /\ Occurrences("RangerCore", b) = 0

C5_Witness ==
  /\ pc = "done"
  /\ Len(packages) = 2
  /\ packages[1] = RangerCore
  /\ packages[2].name = "MIT"
  /\ Occurrences("ranger-core", configs[3].output.banner) = 1
  /\ Occurrences("MIT", configs[7].output.banner) = 3

(***************************************************************************)
(* C6 as stated: UMD-DEV and UMD-PROD agree on everything but the output   *)
(* file and the pipeline, and the pipelines differ only in the             *)
(* EnvironmentReplace mode and in the Minify and Analyze stages of         *)
(* UMD-PROD.                                                               *)
(***************************************************************************)
UmdShared(dev, prod) ==
  /\ dev.output.name = prod.output.name
  /\ dev.input = prod.input
  /\ dev.external = prod.external
  /\ dev.output.globals = prod.output.globals
  /\ dev.output.banner = prod.output.banner
  /\ dev.output.sourcemap = prod.output.sourcemap
  /\ dev.output.format = prod.output.format
  /\ DOMAIN dev = DOMAIN prod
  /\ DOMAIN dev.output = DOMAIN prod.output
  /\ dev.output.file # prod.output.file

\* the pipelines agree up to the mode of their EnvironmentReplace stage, and
\* the stages UMD-PROD adds after it are of the kinds given
PipelinesDiffer(dev, prod, added) ==
  /\ Len(dev.plugins) = 3
  /\ Len(prod.plugins) > 3
  /\ \A n \in 1..2 : dev.plugins[n] = prod.plugins[n]
  /\ StageKind(dev.plugins[3]) = "EnvironmentReplace"
  /\ Mode(dev.plugins[3]) = "development"
  /\ Mode(prod.plugins[3]) = "production"
  /\ [ dev.plugins[3] EXCEPT !.replacement = "" ]
       = [ prod.plugins[3] EXCEPT !.replacement = "" ]
  /\ \A n \in 4..Len(prod.plugins) : StageKind(prod.plugins[n]) \in added
  /\ \A kind \in added : \E n \in 4..Len(prod.plugins) :
       StageKind(prod.plugins[n]) = kind

C6_Original ==
  \A k \in Processed :
    /\ UmdShared(Group(k)[3], Group(k)[4])
    /\ PipelinesDiffer(Group(k)[3], Group(k)[4], { "Minify", "Analyze" })

(***************************************************************************)
(* C6 as amended: as stated, except that the stages UMD-PROD adds are the  *)
(* Minify stage, the size plugin's stage and the Analyze stages.           *)
(***************************************************************************)
C6_UmdDevProd ==
  \A k \in Processed :
    /\ UmdShared(Group(k)[3], Group(k)[4])
    /\ Group(k)[3].output.name = packages[k].jsName
    /\ PipelinesDiffer(Group(k)[3], Group(k)[4], { "Minify", "Size", "Analyze" })

C6_Witness ==
  /\ pc = "building"
  /\ i = 2
  /\ packages[1] = RangerCore
  /\ configs[3].output.name = "RangerCore"
  /\ configs[4].output.name = "RangerCore"
  /\ Len(configs[4].plugins) = Len(configs[3].plugins) + 4

(***************************************************************************)
(* C7: for a package directory D the outputs are the directories           *)
(* D/build/esm and D/build/cjs and the files                               *)
(* D/build/umd/index.development.js and D/build/umd/index.production.js,   *)
(* each with sourcemaps; the UMD-PROD reports go to D/build/stats-html.html *)
(* and D/build/stats-react.json; both UMD descriptors carry the display    *)
(* name as global name.  For ranger-core: packages/ranger-core/build/esm,  *)
(* packages/ranger-core/build/umd/index.production.js and RangerCore.      *)
(***************************************************************************)
C7_OutputLocations ==
  \A k \in Processed :
    LET g == Group(k)
        D == packages[k].packageDir
        reports == { st.filename : st \in
                       { g[4].plugins[n] : n \in { m \in 1..Len(g[4].plugins) :
                           StageKind(g[4].plugins[m]) = "Analyze" } } }
    IN  /\ g[1].output.dir = D \o "/build/esm"
        /\ "file" \notin DOMAIN g[1].output
        /\ g[2].output.dir = D \o "/build/cjs"
        /\ "file" \notin DOMAIN g[2].output
        /\ g[3].output.file = D \o "/build/umd/index.development.js"
        /\ "dir" \notin DOMAIN g[3].output
        /\ g[4].output.file = D \o "/build/umd/index.production.js"
        /\ "dir" \notin DOMAIN g[4].output
        /\ \A a \in 1..4 : g[a].output.sourcemap = TRUE
        /\ reports = { D \o "/build/stats-html.html", D \o "/build/stats-react.json" }
        /\ g[3].output.name = packages[k].jsName
        /\ g[4].output.name = packages[k].jsName
        /\ packages[k] = RangerCore =>
             /\ g[1].output.dir = "packages/ranger-core/build/esm"
             /\ g[4].output.file = "packages/ranger-core/build/umd/index.production.js"
             /\ g[4].output.name = "RangerCore"

C7_Witness ==
  /\ pc = "done"
  /\ Len(packages) = 2
  /\ packages[2] = RangerCore
  /\ configs[5].output.dir = "packages/ranger-core/build/esm"
  /\ configs[8].output.file = "packages/ranger-core/build/umd/index.production.js"
  /\ configs[1].output.dir = "packages/ranger-react//build/esm"

(***************************************************************************)
(* C8: in the UMD-PROD pipeline the EnvironmentReplace stage comes after   *)
(* the Transpile and ModuleResolve stages and before the Minify stage, the *)
(* Minify stage comes before every Analyze stage, and nothing but Analyze  *)
(* stages follows an Analyze stage.                                        *)
(***************************************************************************)
C8_StageOrder ==
  \A k \in Processed :
    LET kinds == Kinds(Group(k)[4].plugins)
        At(kind) == { n \in 1..Len(kinds) : kinds[n] = kind }
    IN  /\ At("EnvironmentReplace") # { }
        /\ At("Minify") # { }
        /\ At("Analyze") # { }
        /\ At("Transpile") # { }
        /\ At("ModuleResolve") # { }
        /\ \A e \in At("EnvironmentReplace") :
             /\ \A t \in At("Transpile") \cup At("ModuleResolve") : t < e
             /\ \A m \in At("Minify") : e < m
        /\ \A m \in At("Minify") : \A a \in At("Analyze") : m < a
        /\ \A a \in At("Analyze") : \A n \in (a + 1)..Len(kinds) :
             kinds[n] = "Analyze"
        /\ kinds[Len(kinds)] = "Analyze"

C8_Witness ==
  /\ pc = "building"
  /\ i = 3
  /\ StageKind(configs[8].plugins[3]) = "EnvironmentReplace"
  /\ StageKind(configs[8].plugins[4]) = "Minify"

(***************************************************************************)
(* C9: the ESM and the CJS descriptor both preserve the module graph       *)
(* (preserveModules) in their output directory, and CJS uses named         *)
(* exports.                                                                *)
(***************************************************************************)
C9_PreserveModules ==
  \A k \in Processed :
    LET g == Group(k)
    IN  /\ "preserveModules" \in DOMAIN g[1].output
        /\ g[1].output.preserveModules = TRUE
        /\ "preserveModules" \in DOMAIN g[2].output
        /\ g[2].output.preserveModules = TRUE
        /\ g[2].output.exports = "named"

\* the case of C9: a package built, CJS preserving its modules, ESM not
C9_Witness ==
  /\ pc = "building"
  /\ i = 2
  /\ configs[2].output.preserveModules = TRUE
  /\ "preserveModules" \notin DOMAIN configs[1].output

(***************************************************************************)
(* C10: the ESM and CJS pipelines are the same two stages, Transpile then  *)
(* ModuleResolve; the UMD-DEV pipeline is these followed by                *)
(* EnvironmentReplace("development"); of the four descriptors only         *)
(* UMD-PROD has a Minify or an Analyze stage.                              *)
(***************************************************************************)
C10_LightPipelines ==
  \A k \in Processed :
    LET g == Group(k)
        Has(a, kind) == \E n \in 1..Len(g[a].plugins) :
                          StageKind(g[a].plugins[n]) = kind
    IN  /\ g[1].plugins = g[2].plugins
        /\ Kinds(g[1].plugins) = << "Transpile", "ModuleResolve" >>
        /\ Kinds(g[2].plugins) = << "Transpile", "ModuleResolve" >>
        /\ Kinds(g[3].plugins) =
             << "Transpile", "ModuleResolve", "EnvironmentReplace" >>
        /\ Mode(g[3].plugins[3]) = "development"
        /\ \A a \in 1..3 : ~Has(a, "Minify") /\ ~Has(a, "Analyze")
        /\ \A a \in 1..2 : ~Has(a, "EnvironmentReplace")
        /\ { a \in 1..4 : Has(a, "Minify") \/ Has(a, "Analyze") } = { 4 }

C10_Witness ==
  /\ pc = "done"
  /\ Len(configs) = 4
  /\ Len(configs[1].plugins) = 2
  /\ Len(configs[2].plugins) = 2
  /\ Len(configs[3].plugins) = 3
  /\ configs[3].plugins[3].replacement = "\"development\""

====
